---- MODULE Spec2Model ----
(***************************************************************************)
(* Model of the gemini-web chat client: src/config.js (CONFIG, API key     *)
(* storage) and src/gemini-web/script.js (conversation state, request      *)
(* assembly, persistence, the busy guard).                                 *)
(*                                                                         *)
(* JavaScript values are encoded as records so that every comparison is    *)
(* between values of one shape:                                            *)
(*   a JS value     [kind |-> "string", text |-> s]   a string             *)
(*                  [kind |-> "undefined", text |-> ""]   undefined        *)
(*   a part object  is represented by the slot of its `text` property: a   *)
(*                  JS value, or [kind |-> "absent", text |-> ""] when the *)
(*                  object has no own property `text` (the object {}).     *)
(*   a turn         [role |-> r, parts |-> <<slot, ...>>]                  *)
(*   a localStorage item of key gemini_chat_data                           *)
(*                  [kind, conversationHistory, currentPersonality] with   *)
(*                  kind "none" (no item), "garbage" (text that is not     *)
(*                  JSON), "null" (the JSON text null) or "object".        *)
(* Every handler runs to completion on the single JS thread; the only      *)
(* suspension point is the await of the network call in sendMessage, so a  *)
(* send is two atomic steps: SendMessage (up to fetch) and ReceiveResponse *)
(* (the continuation).                                                     *)
(***************************************************************************)
EXTENDS Integers, Sequences, FiniteSets, TLC

VARIABLES
    conversationHistory,  \* script.js:2   the in-memory list of turns
    currentPersonality,   \* script.js:3   the active persona id
    isLoading,            \* script.js:4   the busy flag
    inputDisabled,        \* DOM: message-input.disabled and send-button.disabled
    settingsShown,        \* DOM: settings-modal carries class "show"
    view,                 \* DOM: the children of chat-messages, in order
    gemini_api_key,       \* localStorage item 'gemini_api_key' ("" when there is none)
    gemini_chat_data,     \* localStorage item 'gemini_chat_data'
    pending,              \* the fetch calls issued and not yet settled
    sent,                 \* number of fetch calls issued so far
    loaded,               \* window.onload has run
    appended,             \* history: every turn put into conversationHistory since it was last reset
    lastSend              \* history: the last call of sendMessage: how it ended, and the
                          \* busy flag and the presence of the key when it was made

vars == <<conversationHistory, currentPersonality, isLoading, inputDisabled,
          settingsShown, view, gemini_api_key, gemini_chat_data, pending,
          sent, loaded, appended, lastSend>>

-----------------------------------------------------------------------------
(* Bounds of the model *)

\* fetch calls per behaviour of Spec and of SpecStored
MaxSends == 2

\* fetch calls per behaviour of SpecWindow
MaxWindowSends == 12

-----------------------------------------------------------------------------
(* CONFIG, src/config.js *)

MAX_HISTORY_LENGTH == 20

\* CONFIG.PERSONALITIES: the preamble of each persona (the Russian texts of
\* config.js:16-20, transliterated and cut to their first sentence)
PERSONALITIES ==
    [p \in {"default", "poet", "teacher", "friend", "professional"} |->
        CASE p = "default" -> "Ty - professional'nyj assistent."
          [] p = "poet" -> "Ty - poet."
          [] p = "teacher" -> "Ty - uchitel'."
          [] p = "friend" -> "Ty - blizkij drug."
          [] p = "professional" -> "Ty - biznes-konsul'tant."]

\* the acknowledgment turn's text, script.js:98
ACK_TEXT == "Ponyal! Budu sledovat' etomu stilyu."

-----------------------------------------------------------------------------
(* JavaScript values *)

JsString(s) == [kind |-> "string", text |-> s]
JsUndefined == [kind |-> "undefined", text |-> ""]
\* the text slot of a part object that has no property `text`
NoText == [kind |-> "absent", text |-> ""]

\* reading obj.text: a missing property reads as undefined
ReadText(slot) == IF slot.kind = "absent" THEN JsUndefined ELSE slot

\* { role: r, parts: [{ text: v }] }
Turn(r, v) == [role |-> r, parts |-> <<v>>]

\* String.prototype.trim on the inputs of the model
Trim(s) ==
    CASE s = "  " -> ""
      [] s = " hi " -> "hi"
      [] s = " k1 " -> "k1"
      [] OTHER -> s

\* what the user may have typed into message-input
MessageInputs == {"", "  ", " hi "}

\* what the user may have typed into api-key-input
KeyInputs == {"", "  ", " k1 "}

\* the ids changePersonality is called with
PersonaInputs == {"default", "poet", "villain"}

-----------------------------------------------------------------------------
(* config.js: the API key *)

getApiKey == gemini_api_key

\* hasApiKey as `getApiKey() !== null`: true of the empty key as well
hasApiKeyNotNull(key) == TRUE

\* hasApiKey(), config.js:37-40, of the key getApiKey() returns
hasApiKeyIn(key) == key # ""

hasApiKey == hasApiKeyIn(getApiKey)

-----------------------------------------------------------------------------
(* JSON *)

NoItem == [kind |-> "none", conversationHistory |-> <<>>, currentPersonality |-> ""]

\* JSON.stringify of one part object: a property whose value is undefined is left out
StringifyPart(slot) == IF slot.kind = "undefined" THEN NoText ELSE slot

StringifyTurn(t) ==
    [role |-> t.role, parts |-> [i \in 1..Len(t.parts) |-> StringifyPart(t.parts[i])]]

\* JSON.stringify({conversationHistory: h, currentPersonality: p})
JSONstringify(h, p) ==
    [kind |-> "object",
     conversationHistory |-> [i \in 1..Len(h) |-> StringifyTurn(h[i])],
     currentPersonality |-> p]

\* saveData(), for the history and persona the handler leaves
saveData(h, p) == JSONstringify(h, p)

\* JSON.parse(item) throws a SyntaxError
ParseThrows(item) == item.kind = "garbage"

-----------------------------------------------------------------------------
(* script.js: rendering *)

\* addMessage(type, content): one more child of chat-messages
addMessage(v, type, content) == Append(v, [type |-> type, content |-> content])

\* the loop of loadSavedData without its test of conversationHistory[i + 1]:
\* a last turn that has no partner is rendered as well
RECURSIVE ReplayUnpaired(_, _, _)
ReplayUnpaired(h, k, v) ==
    IF k > Len(h) THEN [view |-> v, threw |-> FALSE]
    ELSE IF h[k].parts = <<>> THEN [view |-> v, threw |-> TRUE]
    ELSE LET v1 == addMessage(v, "user", ReadText(h[k].parts[1])) IN
         IF k = Len(h) THEN [view |-> v1, threw |-> FALSE]
         ELSE IF h[k + 1].parts = <<>> THEN [view |-> v1, threw |-> TRUE]
         ELSE ReplayUnpaired(h, k + 2,
                             addMessage(v1, "bot", ReadText(h[k + 1].parts[1])))

\* the loop of loadSavedData, script.js:315-320, from the pair at 1-based index k;
\* reading parts[0].text of a turn whose parts has no element throws
RECURSIVE Replay(_, _, _)
Replay(h, k, v) ==
    IF k + 1 > Len(h) THEN [view |-> v, threw |-> FALSE]
    ELSE IF h[k].parts = <<>> THEN [view |-> v, threw |-> TRUE]
    ELSE LET v1 == addMessage(v, "user", ReadText(h[k].parts[1])) IN
         IF h[k + 1].parts = <<>> THEN [view |-> v1, threw |-> TRUE]
         ELSE Replay(h, k + 2, addMessage(v1, "bot", ReadText(h[k + 1].parts[1])))

-----------------------------------------------------------------------------
(* script.js: persistence *)

\* loadSavedData() run on the item stored under gemini_chat_data, from the state
\* (h0, p0, v0): the history, persona, item and view it leaves, and whether its
\* catch block ran. It calls changePersonality, which saves.
loadSavedData(item, h0, p0, v0) ==
    LET same == [conversationHistory |-> h0, currentPersonality |-> p0,
                 gemini_chat_data |-> item, view |-> v0]
    IN  IF item.kind = "none" THEN same @@ [caught |-> FALSE]
        ELSE IF ParseThrows(item) THEN same @@ [caught |-> TRUE]
        ELSE IF item.kind = "null" THEN same @@ [caught |-> TRUE]
        ELSE LET h == item.conversationHistory
                 p == IF item.currentPersonality = "" THEN "default"
                      ELSE item.currentPersonality
                 r == IF Len(h) > 0 THEN Replay(h, 1, v0)
                      ELSE [view |-> v0, threw |-> FALSE]
             IN  [conversationHistory |-> h, currentPersonality |-> p,
                  gemini_chat_data |-> saveData(h, p), view |-> r.view,
                  caught |-> r.threw]

-----------------------------------------------------------------------------
(* script.js: the request *)

\* CONFIG.PERSONALITIES[currentPersonality]: undefined for an id that is no key
systemPrompt(p) ==
    IF p \in DOMAIN PERSONALITIES THEN JsString(PERSONALITIES[p]) ELSE JsUndefined

\* callGeminiAPI with the new message pushed before the history
BuildContentsMessageFirst(h, p, message) ==
    <<Turn("user", systemPrompt(p)), Turn("model", JsString(ACK_TEXT))>>
        \o <<Turn("user", JsString(message))>> \o h

\* the contents list of callGeminiAPI, script.js:88-108
BuildContents(h, p, message) ==
    <<Turn("user", systemPrompt(p)), Turn("model", JsString(ACK_TEXT))>>
        \o h \o <<Turn("user", JsString(message))>>

\* the ways a fetch settles. candidates models data.candidates[i].content.parts
\* as the list of text slots of candidate i; errorMessage is the payload's
\* error.message ("" when the payload has none).
Settle(settled, ok, json, candidates, errorMessage) ==
    [settled |-> settled, ok |-> ok, json |-> json, candidates |-> candidates,
     errorMessage |-> errorMessage]

Rejected == Settle("rejected", FALSE, FALSE, <<>>, "")
OkText(s) == Settle("fulfilled", TRUE, TRUE, <<(<<JsString(s)>>)>>, "")
OkPartWithoutText == Settle("fulfilled", TRUE, TRUE, <<(<<NoText>>)>>, "")
OkNoCandidates == Settle("fulfilled", TRUE, TRUE, <<>>, "")
OkNoParts == Settle("fulfilled", TRUE, TRUE, <<(<<>>)>>, "")
OkNotJson == Settle("fulfilled", TRUE, FALSE, <<>>, "")
ErrorWithMessage(s) == Settle("fulfilled", FALSE, TRUE, <<>>, s)
ErrorWithoutMessage == Settle("fulfilled", FALSE, TRUE, <<>>, "")
ErrorNotJson == Settle("fulfilled", FALSE, FALSE, <<>>, "")

\* the rest of callGeminiAPI after fetch settles, script.js:133-148: whether it
\* throws, the value it returns, the message of the error it throws
callGeminiAPI(resp) ==
    LET throw(m) == [threw |-> TRUE, value |-> JsUndefined, message |-> m]
    IN  IF resp.settled = "rejected" THEN throw("Failed to fetch")
        ELSE IF ~resp.json THEN throw("SyntaxError")
        ELSE IF ~resp.ok
             THEN throw(IF resp.errorMessage # "" THEN resp.errorMessage
                        ELSE "Oshibka API")
        ELSE IF resp.candidates = <<>> THEN throw("TypeError")
        ELSE IF resp.candidates[1] = <<>> THEN throw("TypeError")
        ELSE [threw |-> FALSE, value |-> ReadText(resp.candidates[1][1]),
              message |-> ""]

\* the limit with slice(0, MAX_HISTORY_LENGTH): the oldest turns are kept
LimitHistoryOldest(h) ==
    IF Len(h) > MAX_HISTORY_LENGTH THEN SubSeq(h, 1, MAX_HISTORY_LENGTH) ELSE h

\* the limit keeping one turn less than MAX_HISTORY_LENGTH
LimitHistoryOdd(h) ==
    IF Len(h) > MAX_HISTORY_LENGTH
    THEN SubSeq(h, Len(h) - MAX_HISTORY_LENGTH + 2, Len(h))
    ELSE h

\* the limit applied one exchange late
LimitHistoryLate(h) ==
    IF Len(h) > MAX_HISTORY_LENGTH + 2
    THEN SubSeq(h, Len(h) - MAX_HISTORY_LENGTH + 1, Len(h))
    ELSE h

\* conversationHistory.slice(-CONFIG.MAX_HISTORY_LENGTH) when the list is longer
LimitHistory(h) ==
    IF Len(h) > MAX_HISTORY_LENGTH
    THEN SubSeq(h, Len(h) - MAX_HISTORY_LENGTH + 1, Len(h))
    ELSE h

-----------------------------------------------------------------------------
(* The state after the script has been evaluated, script.js:2-4 *)

\* the texts of a conversation stored by an earlier session
OldTexts ==
    <<"q1", "a1", "q2", "a2", "q3", "a3", "q4", "a4", "q5", "a5",
      "q6", "a6", "q7", "a7", "q8", "a8", "q9", "a9", "q10", "a10">>

\* the first n turns of that conversation
SavedHistory(n) ==
    [k \in 1..n |-> Turn(IF k % 2 = 1 THEN "user" ELSE "model", JsString(OldTexts[k]))]

\* items an earlier session of the program has left under gemini_chat_data
WrittenItems ==
    {NoItem,
     saveData(SavedHistory(MAX_HISTORY_LENGTH - 2), "poet"),
     saveData(SavedHistory(MAX_HISTORY_LENGTH), "default")}

InitWith(items) ==
    /\ conversationHistory = <<>>
    /\ currentPersonality = "default"
    /\ isLoading = FALSE
    /\ inputDisabled \in BOOLEAN
    /\ settingsShown = FALSE
    /\ view = <<>>
    /\ gemini_api_key \in {"", "k1"}
    /\ gemini_chat_data \in items
    /\ pending = {}
    /\ sent = 0
    /\ loaded = FALSE
    /\ appended = <<>>
    /\ lastSend = [outcome |-> "none", busy |-> FALSE, key |-> FALSE]

Init == InitWith(WrittenItems)

-----------------------------------------------------------------------------
(* The handlers *)

\* window.onload, script.js:7-19
OnLoad ==
    /\ ~loaded
    /\ LET r == loadSavedData(gemini_chat_data, conversationHistory,
                              currentPersonality, view)
       IN  /\ conversationHistory' = r.conversationHistory
           /\ currentPersonality' = r.currentPersonality
           /\ gemini_chat_data' = r.gemini_chat_data
           /\ view' = r.view
           /\ appended' = IF r.conversationHistory = conversationHistory
                          THEN appended ELSE r.conversationHistory
    /\ IF hasApiKey
       THEN isLoading' = FALSE /\ inputDisabled' = FALSE
       ELSE UNCHANGED <<isLoading, inputDisabled>>
    /\ loaded' = TRUE
    /\ UNCHANGED <<settingsShown, gemini_api_key, pending, sent, lastSend>>

\* sendMessage with a plain return where it should call showApiKeyDialog()
SendMessageSilent(raw) ==
    LET message == Trim(raw)
        called(outcome) == [outcome |-> outcome, busy |-> isLoading, key |-> hasApiKey]
    IN
    IF message = "" \/ isLoading \/ ~hasApiKey
    THEN /\ lastSend' = called("returned")
         /\ UNCHANGED <<conversationHistory, currentPersonality, isLoading,
                        inputDisabled, settingsShown, view, gemini_api_key,
                        gemini_chat_data, pending, sent, loaded, appended>>
    ELSE /\ isLoading' = TRUE
         /\ inputDisabled' = TRUE
         /\ view' = addMessage(view, "user", JsString(message))
         /\ pending' = pending \cup
                {[id |-> sent + 1, message |-> message, key |-> getApiKey,
                  contents |-> BuildContents(conversationHistory,
                                             currentPersonality, message)]}
         /\ sent' = sent + 1
         /\ lastSend' = called("fetch")
         /\ UNCHANGED <<conversationHistory, currentPersonality, settingsShown,
                        gemini_api_key, gemini_chat_data, loaded, appended>>

\* sendMessage() up to the fetch of callGeminiAPI, script.js:43-58 and 83-139,
\* with `raw` in message-input
SendMessage(raw) ==
    LET message == Trim(raw)
        called(outcome) == [outcome |-> outcome, busy |-> isLoading, key |-> hasApiKey]
    IN
    IF message = "" \/ isLoading
    THEN /\ lastSend' = called("returned")
         /\ UNCHANGED <<conversationHistory, currentPersonality, isLoading,
                        inputDisabled, settingsShown, view, gemini_api_key,
                        gemini_chat_data, pending, sent, loaded, appended>>
    ELSE IF ~hasApiKey
    THEN /\ settingsShown' = TRUE
         /\ lastSend' = called("dialog")
         /\ UNCHANGED <<conversationHistory, currentPersonality, isLoading,
                        inputDisabled, view, gemini_api_key, gemini_chat_data,
                        pending, sent, loaded, appended>>
    ELSE /\ isLoading' = TRUE
         /\ inputDisabled' = TRUE
         /\ view' = addMessage(view, "user", JsString(message))
         /\ pending' = pending \cup
                {[id |-> sent + 1, message |-> message, key |-> getApiKey,
                  contents |-> BuildContents(conversationHistory,
                                             currentPersonality, message)]}
         /\ sent' = sent + 1
         /\ lastSend' = called("fetch")
         /\ UNCHANGED <<conversationHistory, currentPersonality, settingsShown,
                        gemini_api_key, gemini_chat_data, loaded, appended>>

\* the continuation of sendMessage() once the fetch of request r has settled
\* as resp, script.js:58-80 and 141-147
ReceiveResponse(r, resp) ==
    /\ r \in pending
    /\ pending' = pending \ {r}
    /\ LET res == callGeminiAPI(resp) IN
       IF ~res.threw
       THEN LET pushed == conversationHistory
                            \o <<Turn("user", JsString(r.message)),
                                 Turn("model", res.value)>>
            IN  /\ view' = addMessage(view, "bot", res.value)
                /\ conversationHistory' = LimitHistory(pushed)
                /\ gemini_chat_data' =
                       saveData(LimitHistory(pushed), currentPersonality)
                /\ appended' = appended
                            \o <<Turn("user", JsString(r.message)),
                                 Turn("model", res.value)>>
       ELSE /\ view' = addMessage(view, "bot", JsString("Oshibka: " \o res.message))
            /\ UNCHANGED <<conversationHistory, gemini_chat_data, appended>>
    /\ isLoading' = FALSE
    /\ inputDisabled' = FALSE
    /\ UNCHANGED <<currentPersonality, settingsShown, gemini_api_key, sent, loaded,
                   lastSend>>

\* changePersonality(personality), script.js:180-195
ChangePersonality(personality) ==
    /\ currentPersonality' = personality
    /\ gemini_chat_data' = saveData(conversationHistory, personality)
    /\ UNCHANGED <<conversationHistory, isLoading, inputDisabled, settingsShown,
                   view, gemini_api_key, pending, sent, loaded, appended, lastSend>>

\* clearContext without its saveData() call
ClearContextNoSave ==
    /\ conversationHistory' = <<>>
    /\ view' = <<>>
    /\ appended' = <<>>
    /\ UNCHANGED <<currentPersonality, isLoading, inputDisabled, settingsShown,
                   gemini_api_key, gemini_chat_data, pending, sent, loaded, lastSend>>

\* clearContext(), script.js:210-220
ClearContext ==
    /\ conversationHistory' = <<>>
    /\ view' = <<>>
    /\ gemini_chat_data' = saveData(<<>>, currentPersonality)
    /\ appended' = <<>>
    /\ UNCHANGED <<currentPersonality, isLoading, inputDisabled, settingsShown,
                   gemini_api_key, pending, sent, loaded, lastSend>>

\* saveApiKey(), script.js:346-359, with `raw` in api-key-input
SaveApiKey(raw) ==
    LET apiKey == Trim(raw) IN
    IF apiKey # ""
    THEN /\ gemini_api_key' = apiKey
         /\ settingsShown' = FALSE
         /\ isLoading' = FALSE
         /\ inputDisabled' = FALSE
         /\ UNCHANGED <<conversationHistory, currentPersonality, view,
                        gemini_chat_data, pending, sent, loaded, appended, lastSend>>
    ELSE UNCHANGED vars

\* removeApiKey(), config.js:42-44
RemoveApiKey ==
    /\ gemini_api_key' = ""
    /\ UNCHANGED <<conversationHistory, currentPersonality, isLoading,
                   inputDisabled, settingsShown, view, gemini_chat_data, pending,
                   sent, loaded, appended, lastSend>>

\* showSettings(), script.js:329-337
ShowSettings ==
    /\ settingsShown' = TRUE
    /\ UNCHANGED <<conversationHistory, currentPersonality, isLoading,
                   inputDisabled, view, gemini_api_key, gemini_chat_data, pending,
                   sent, loaded, appended, lastSend>>

\* hideSettings(), script.js:339-344
HideSettings ==
    /\ settingsShown' = FALSE
    /\ UNCHANGED <<conversationHistory, currentPersonality, isLoading,
                   inputDisabled, view, gemini_api_key, gemini_chat_data, pending,
                   sent, loaded, appended, lastSend>>

\* how the fetch calls of Spec settle
FetchOutcomes == {OkText("ok"), OkPartWithoutText, ErrorWithMessage("quota exceeded")}

\* The controls that call the handlers are used once the page has loaded:
\* window.onload is the first step of every behaviour.
Next ==
    \/ OnLoad
    \/ (loaded /\ sent < MaxSends /\ \E raw \in MessageInputs : SendMessage(raw))
    \/ \E r \in pending, resp \in FetchOutcomes : ReceiveResponse(r, resp)
    \/ (loaded /\ \E personality \in PersonaInputs : ChangePersonality(personality))
    \/ (loaded /\ ClearContext)
    \/ (loaded /\ \E raw \in KeyInputs : SaveApiKey(raw))
    \/ (loaded /\ RemoveApiKey)
    \/ (loaded /\ ShowSettings)
    \/ (loaded /\ HideSettings)

Spec == Init /\ [][Next]_vars

-----------------------------------------------------------------------------
(* SpecStored: the page is loaded over an item the program did not write *)

\* [{role: "user"}, {role: "model"}]: turns that have no parts
TurnsWithoutParts == <<[role |-> "user", parts |-> <<>>], [role |-> "model", parts |-> <<>>]>>

ForeignItems ==
    {[kind |-> "garbage", conversationHistory |-> <<>>, currentPersonality |-> ""],
     [kind |-> "null", conversationHistory |-> <<>>, currentPersonality |-> ""],
     \* the JSON text {}
     [kind |-> "object", conversationHistory |-> <<>>, currentPersonality |-> ""],
     [kind |-> "object", conversationHistory |-> TurnsWithoutParts,
      currentPersonality |-> "poet"],
     [kind |-> "object", conversationHistory |-> SavedHistory(2),
      currentPersonality |-> "villain"],
     \* a history of odd length: its last turn has no partner
     [kind |-> "object", conversationHistory |-> SavedHistory(3),
      currentPersonality |-> "default"]}

InitStored == InitWith(ForeignItems)

SpecStored == InitStored /\ [][Next]_vars

-----------------------------------------------------------------------------
(* SpecWindow: exchanges only, one after the other, from an empty history *)

InitWindow ==
    /\ conversationHistory = <<>>
    /\ currentPersonality = "default"
    /\ isLoading = FALSE
    /\ inputDisabled = FALSE
    /\ settingsShown = FALSE
    /\ view = <<>>
    /\ gemini_api_key = "k1"
    /\ gemini_chat_data = NoItem
    /\ pending = {}
    /\ sent = 0
    /\ loaded = TRUE
    /\ appended = <<>>
    /\ lastSend = [outcome |-> "none", busy |-> FALSE, key |-> FALSE]

NextWindow ==
    \/ (sent < MaxWindowSends /\ \E raw \in {" hi ", "yo"} : SendMessage(raw))
    \/ \E r \in pending : ReceiveResponse(r, OkText("ok"))

SpecWindow == InitWindow /\ [][NextWindow]_vars

-----------------------------------------------------------------------------
(* SpecApi: exchanges only, with every way a fetch settles *)

\* fetch calls per behaviour of SpecApi
MaxApiSends == 3

ApiOutcomes ==
    {OkText("ok"), OkPartWithoutText, OkNoCandidates, OkNoParts, OkNotJson,
     Rejected, ErrorWithMessage("quota exceeded"), ErrorWithoutMessage,
     ErrorNotJson}

NextApi ==
    \/ (sent < MaxApiSends /\ \E raw \in MessageInputs : SendMessage(raw))
    \/ \E r \in pending, resp \in ApiOutcomes : ReceiveResponse(r, resp)

SpecApi == InitWindow /\ [][NextApi]_vars

-----------------------------------------------------------------------------
(* The claims *)

\* C1: at most one request is in flight at any time: a sendMessage made while
\* an earlier request has not settled issues no second network call.
C1_AtMostOneInFlight == Cardinality(pending) <= 1

\* C2: from an empty history, once the exchanges that succeeded have appended
\* more than MAX_HISTORY_LENGTH turns, conversationHistory has exactly
\* MAX_HISTORY_LENGTH turns and they are the last MAX_HISTORY_LENGTH turns
\* appended, in the order they were appended.
C2_SlidingWindow ==
    Len(appended) > MAX_HISTORY_LENGTH =>
        /\ Len(conversationHistory) = MAX_HISTORY_LENGTH
        /\ \A i \in 1..MAX_HISTORY_LENGTH :
              conversationHistory[i] =
                  appended[Len(appended) - MAX_HISTORY_LENGTH + i]

\* C2's case: eleven exchanges have succeeded, the first of them with another
\* message than the second, and the oldest pair is gone
C2_Witness ==
    /\ Len(appended) = MAX_HISTORY_LENGTH + 2
    /\ pending = {}
    /\ appended[1] # appended[3]
    /\ conversationHistory[1] = appended[3]

\* C3: between handlers conversationHistory holds at most MAX_HISTORY_LENGTH
\* turns, and so does the history of the item stored under gemini_chat_data.
C3_HistoryBound ==
    /\ Len(conversationHistory) <= MAX_HISTORY_LENGTH
    /\ Len(gemini_chat_data.conversationHistory) <= MAX_HISTORY_LENGTH

\* C3's case: a successful exchange on a full history has dropped the oldest pair
C3_Witness ==
    /\ Len(appended) > MAX_HISTORY_LENGTH
    /\ Len(conversationHistory) = MAX_HISTORY_LENGTH
    /\ gemini_chat_data.kind = "object"
    /\ Len(gemini_chat_data.conversationHistory) = MAX_HISTORY_LENGTH

\* C4: every call of the remote API is made with a stored API key that is
\* present and not empty.
C4_NoCallWithoutKey == \A r \in pending : r.key # ""

\* C4's case: a call is in flight (and the key was removed after it was made)
C4_Witness == \E r \in pending : r.key = "k1" /\ gemini_api_key = ""

\* a settled fetch that the claim counts as failed: rejected, a non-success
\* status, or a success without candidates[0].content.parts[0].text
FailedFetch(resp) ==
    \/ resp.settled = "rejected"
    \/ ~resp.ok
    \/ ~resp.json
    \/ resp.candidates = <<>>
    \/ resp.candidates[1] = <<>>
    \/ resp.candidates[1][1].kind # "string"

\* C5: a failed exchange records nothing: the step that delivers the failure
\* leaves conversationHistory and the stored item as they were.
C5_FailedExchangeRecordsNothing ==
    [][\A r \in pending, resp \in FetchOutcomes :
          (FailedFetch(resp) /\ ReceiveResponse(r, resp)) =>
              UNCHANGED <<conversationHistory, gemini_chat_data>>]_vars

\* C6: the active persona is always one of default, poet, teacher, friend,
\* professional.
C6_PersonaKnown == currentPersonality \in DOMAIN PERSONALITIES

\* a stored item that is absent or corrupted: no item, text that is not JSON,
\* or JSON of the wrong shape
Corrupted(item) ==
    \/ item.kind \in {"none", "garbage", "null"}
    \/ \E i \in 1..Len(item.conversationHistory) :
          item.conversationHistory[i].parts = <<>>

\* C7: loading an absent or corrupted item leaves the state at the empty
\* history and the persona "default".
C7_CorruptedLoadsAsDefault ==
    [][(OnLoad /\ Corrupted(gemini_chat_data)) =>
          (conversationHistory' = <<>> /\ currentPersonality' = "default")]_vars

\* C8: for a state with a known persona and a history that is not empty,
\* saveData followed by loadSavedData in a fresh process gives back the same
\* history and persona, and leaves the stored item as saveData wrote it.
C8_RoundTrip ==
    (currentPersonality \in DOMAIN PERSONALITIES /\ conversationHistory # <<>>) =>
        LET item == saveData(conversationHistory, currentPersonality)
            r == loadSavedData(item, <<>>, "default", <<>>)
        IN  /\ r.conversationHistory = conversationHistory
            /\ r.currentPersonality = currentPersonality
            /\ r.gemini_chat_data = item

\* C9: the contents list of a request has 2 + Len(history) + 1 turns: a user
\* turn with the preamble of the active persona (one of the known personas), a
\* model turn with the fixed acknowledgment, the history turns in their order,
\* and a user turn with the new message; building it leaves the history as it was.
C9_RequestAssembly ==
    [][\A r \in pending' \ pending :
          LET c == r.contents
              h == conversationHistory
          IN  /\ Len(c) = 2 + Len(h) + 1
              /\ c[1].role = "user"
              /\ currentPersonality \in DOMAIN PERSONALITIES =>
                    c[1].parts = <<JsString(PERSONALITIES[currentPersonality])>>
              /\ c[2] = [role |-> "model", parts |-> <<JsString(ACK_TEXT)>>]
              /\ \A i \in 1..Len(h) : c[2 + i] = h[i]
              /\ c[Len(c)] = [role |-> "user", parts |-> <<JsString(r.message)>>]
              /\ conversationHistory' = h]_vars

\* C9's case: a request built over a full history under the persona poet
C9_Witness ==
    \E r \in pending :
        /\ Len(r.contents) = MAX_HISTORY_LENGTH + 3
        /\ r.contents[1].parts = <<JsString(PERSONALITIES["poet"])>>
        /\ r.contents[3] = conversationHistory[1]

\* C10: clearContext empties conversationHistory, stores the item
\* {history: [], persona: the current persona}, and leaves the persona, the
\* stored API key and the busy flag as they were.
C10_ClearFrame ==
    [][ClearContext =>
          /\ conversationHistory' = <<>>
          /\ gemini_chat_data' =
                [kind |-> "object", conversationHistory |-> <<>>,
                 currentPersonality |-> currentPersonality]
          /\ UNCHANGED <<currentPersonality, gemini_api_key, isLoading>>]_vars

\* C10's case: clearContext has run (the view is empty after a send) while a
\* request was in flight, under the persona poet
C10_Witness ==
    /\ sent > 0
    /\ view = <<>>
    /\ conversationHistory = <<>>
    /\ isLoading
    /\ pending # {}
    /\ currentPersonality = "poet"
    /\ gemini_api_key = "k1"
    /\ gemini_chat_data =
          [kind |-> "object", conversationHistory |-> <<>>,
           currentPersonality |-> "poet"]

\* C11: when the remote call reports a non-success status, the send fails with
\* the payload's error.message when it has one, and with the fallback
\* 'Oshibka API' when the payload has none or is not valid JSON; the message is
\* what sendMessage renders after 'Oshibka: '.
C11_ErrorMessage ==
    [][\A r \in pending, resp \in ApiOutcomes :
          (resp.settled = "fulfilled" /\ ~resp.ok /\ ReceiveResponse(r, resp)) =>
              view'[Len(view')] =
                  [type |-> "bot",
                   content |-> JsString("Oshibka: " \o
                       (IF resp.json /\ resp.errorMessage # ""
                        THEN resp.errorMessage ELSE "Oshibka API"))]]_vars

\* C12 as claimed: a call of sendMessage made with no key stored and the busy
\* flag down, whatever the message text, does not return silently: it opens
\* the credential dialog.
C12_NoKeyOpensDialogAnyText ==
    (~lastSend.key /\ ~lastSend.busy /\ lastSend.outcome # "none") =>
        lastSend.outcome = "dialog"

\* C12: a call of sendMessage made with no key stored, the busy flag down and
\* a message text that is not empty once trimmed issues no fetch, leaves the
\* history, the persona, the stored item and the busy flag as they were, and
\* opens the credential dialog.
C12_NoKeyOpensDialog ==
    [][\A raw \in MessageInputs :
          (Trim(raw) # "" /\ ~isLoading /\ ~hasApiKey /\ SendMessage(raw)) =>
              /\ settingsShown'
              /\ lastSend'.outcome = "dialog"
              /\ UNCHANGED <<conversationHistory, currentPersonality,
                             gemini_chat_data, isLoading, pending, sent>>]_vars

\* C12's case: the last call of sendMessage found no key and opened the dialog
\* (after an earlier exchange had been recorded)
C12_Witness ==
    /\ lastSend = [outcome |-> "dialog", busy |-> FALSE, key |-> FALSE]
    /\ settingsShown
    /\ gemini_api_key = ""
    /\ conversationHistory # <<>>
    /\ ~isLoading

\* C13: an accepted send keeps isLoading set until its own request has
\* completed or failed; the flag is never reset to false while a request is
\* still pending (the release itself happens in the finally of sendMessage).
C13_BusyWhilePending ==
    pending # {} => (isLoading /\ inputDisabled)

\* the messages loadSavedData renders for the first m turns of h, a user
\* message for each turn at an even 0-based index and a bot message for the next
Rendered(h, m) ==
    [i \in 1..m |-> [type |-> IF i % 2 = 1 THEN "user" ELSE "bot",
                     content |-> ReadText(h[i].parts[1])]]

\* C14: loading a stored object of n turns (each with a part) leaves all n
\* turns in conversationHistory and appends to the view exactly the turns at
\* 0-based indices 0..2*floor(n/2)-1, in order, as (user, bot) pairs, so a last
\* turn without a partner is not rendered; every request sent afterwards
\* carries the whole conversationHistory, that turn included, between the two
\* persona turns and the new message.
C14_RestoreReplay ==
    [][/\ (OnLoad /\ gemini_chat_data.kind = "object"
                  /\ \A i \in DOMAIN gemini_chat_data.conversationHistory :
                        gemini_chat_data.conversationHistory[i].parts # <<>>) =>
            LET h == gemini_chat_data.conversationHistory
                m == 2 * (Len(h) \div 2)
            IN  /\ conversationHistory' = h
                /\ view' = view \o Rendered(h, m)
       /\ \A r \in pending' \ pending :
              /\ Len(r.contents) = Len(conversationHistory) + 3
              /\ SubSeq(r.contents, 3, Len(conversationHistory) + 2) = conversationHistory]_vars

\* C14's case: a history of three turns was loaded, two of them were rendered,
\* and the request of the next send (whose message is the third message of
\* the view) carries the third turn
C14_Witness ==
    /\ loaded
    /\ Len(conversationHistory) = 3
    /\ Len(view) = 3
    /\ view[3].type = "user"
    /\ \E r \in pending : Len(r.contents) = 6 /\ r.contents[5] = conversationHistory[3]

\* C15: once clearContext has run, the response of a request that was already
\* in flight does not re-populate the history. The view is emptied by
\* clearContext alone and every accepted send adds a message to it, so a
\* request pending while the view is empty was sent before the last clear:
\* its response leaves conversationHistory and the stored history empty.
C15_ClearNotUndone ==
    [][(view = <<>> /\ \E r \in pending, resp \in FetchOutcomes :
                           ReceiveResponse(r, resp)) =>
           /\ conversationHistory' = <<>>
           /\ gemini_chat_data'.conversationHistory = <<>>]_vars

\* user, model, user, model, ...: an even number of turns, starting with user
Alternates(h) ==
    /\ Len(h) % 2 = 0
    /\ \A i \in DOMAIN h : h[i].role = IF i % 2 = 1 THEN "user" ELSE "model"

\* C16: from an empty history or an item the program wrote, in every state
\* conversationHistory has an even number of turns whose roles alternate
\* user, model, ... starting with user (so the limit never splits a pair), and
\* a step that settles a request and changes the history leaves as its last
\* two turns the user turn of that request's message and a model turn.
C16_HistoryShape ==
    /\ []Alternates(conversationHistory)
    /\ [][(pending' # pending /\ pending' \subseteq pending
                /\ conversationHistory' # conversationHistory) =>
             LET r == CHOOSE q \in pending : q \notin pending'
                 n == Len(conversationHistory')
             IN  /\ n >= 2
                 /\ conversationHistory'[n - 1] = Turn("user", JsString(r.message))
                 /\ conversationHistory'[n].role = "model"]_vars

\* C16's case: an exchange on a full history has dropped the oldest pair, and
\* what is left starts with a user turn and ends with a model turn
C16_Witness ==
    /\ Len(appended) = MAX_HISTORY_LENGTH + 2
    /\ conversationHistory = SubSeq(appended, 3, MAX_HISTORY_LENGTH + 2)
    /\ conversationHistory[1].role = "user"
    /\ conversationHistory[MAX_HISTORY_LENGTH].role = "model"

\* C17: once the page has loaded, between handlers (also while a request is
\* pending) the item stored under gemini_chat_data, when there is one, parses
\* to the conversationHistory and currentPersonality that are in memory.
C17_StoredIsCurrent ==
    (loaded /\ gemini_chat_data.kind = "object") =>
        /\ gemini_chat_data.conversationHistory = conversationHistory
        /\ gemini_chat_data.currentPersonality = currentPersonality

====
